---------------------------- MODULE Spec2Model ----------------------------
(***************************************************************************)
(* A model of search.py: the query normalizer (preprocess_sentence), the   *)
(* term expander (expand_words), the scorer (calculate_score) and the      *)
(* ranker (search_documents), with the command-line caller (main).         *)
(*                                                                         *)
(* A Python str is a sequence of one-character strings.  A dict is a       *)
(* function; a missing key is a value outside its DOMAIN.                  *)
(***************************************************************************)
EXTENDS Integers, Sequences, FiniteSets, TLC

VARIABLES
    query,            \* sys.argv[1]
    dbFile,           \* what db_path holds: [ok |-> FALSE] or [ok |-> TRUE, data |-> documents]
    dictFile,         \* what dict_path holds, same shape
    LEMMATIZER,       \* the module-level lemma table (line 49)
    pc,               \* the position of the run inside search_documents / main
    dictionary,       \* search_documents: dictionary
    documents,        \* search_documents: documents
    original_words,   \* search_documents: original_words
    expanded_words,   \* search_documents: expanded_words (a list made from a set)
    results,          \* search_documents: results
    docIdx,           \* index of the document the for-loop of line 133 is at
    score,            \* calculate_score: score
    matched,          \* calculate_score: matched
    wordIdx,          \* calculate_score: position of the running for-loop
    ret,              \* the value search_documents returned to main
    stdout            \* the kinds of line printed so far

vars == <<query, dbFile, dictFile, LEMMATIZER, pc, dictionary, documents,
          original_words, expanded_words, results, docIdx, score, matched,
          wordIdx, ret, stdout>>

\* -------------------------------------------------------------- bounds
MaxQueryLen == 3
MaxDocs == 3

\* ---------------------------------------------------------- characters
LowerLetters == <<"a","b","c","d","e","f","g","h","i","j","k","l","m",
                  "n","o","p","q","r","s","t","u","v","w","x","y","z">>
UpperLetters == <<"A","B","C","D","E","F","G","H","I","J","K","L","M",
                  "N","O","P","Q","R","S","T","U","V","W","X","Y","Z">>
Digits == {"0","1","2","3","4","5","6","7","8","9"}

Range(s) == {s[i] : i \in 1..Len(s)}

LowerSet == Range(LowerLetters)
UpperSet == Range(UpperLetters)
AlnumSet == LowerSet \cup UpperSet \cup Digits
SpaceSet == {" ", "\t", "\n", "\r"}

\* regex class \s
IsSpace(c) == c \in SpaceSet

\* str.isalnum for one character
IsAlnum(c) == c \in AlnumSet

\* regex class \w: the alphanumerics and the underscore
IsWordChar(c) == IsAlnum(c) \/ c = "_"

LowerChar(c) ==
    IF c \in UpperSet
    THEN LowerLetters[CHOOSE i \in 1..Len(UpperLetters) : UpperLetters[i] = c]
    ELSE c

\* str.lower()
lower(s) == [i \in 1..Len(s) |-> LowerChar(s[i])]

\* str.split() without arguments: the maximal runs of non-whitespace
RECURSIVE SplitFrom(_, _, _, _)
SplitFrom(s, i, cur, acc) ==
    IF i > Len(s)
    THEN IF cur = <<>> THEN acc ELSE Append(acc, cur)
    ELSE IF IsSpace(s[i])
         THEN SplitFrom(s, i + 1, <<>>, IF cur = <<>> THEN acc ELSE Append(acc, cur))
         ELSE SplitFrom(s, i + 1, Append(cur, s[i]), acc)

split(s) == SplitFrom(s, 1, <<>>, <<>>)

\* " ".join(words)
RECURSIVE join(_)
join(words) ==
    IF words = <<>> THEN <<>>
    ELSE IF Len(words) = 1 THEN words[1]
    ELSE words[1] \o <<" ">> \o join(Tail(words))

\* Python's  w in s  for two strings
IsSubstring(w, s) ==
    \E i \in 0..(Len(s) - Len(w)) : SubSeq(s, i + 1, i + Len(w)) = w

\* ------------------------------------------------------- configuration
NON_EMPHASIS_WORDS == {
    <<"a">>, <<"a","n">>, <<"t","h","e">>, <<"a","n","d">>, <<"b","u","t">>, <<"i","f">>,
    <<"o","r">>, <<"b","e","c","a","u","s","e">>, <<"a","s">>, <<"u","n","t","i","l">>,
    <<"w","h","i","l","e">>, <<"o","f">>, <<"a","t">>, <<"b","y">>, <<"f","o","r">>,
    <<"w","i","t","h">>, <<"a","b","o","u","t">>, <<"a","g","a","i","n","s","t">>,
    <<"b","e","t","w","e","e","n">>, <<"i","n","t","o">>, <<"t","h","r","o","u","g","h">>,
    <<"d","u","r","i","n","g">>, <<"b","e","f","o","r","e">>, <<"a","f","t","e","r">>,
    <<"a","b","o","v","e">>, <<"b","e","l","o","w">>, <<"t","o">>, <<"f","r","o","m">>,
    <<"u","p">>, <<"d","o","w","n">>, <<"i","n">>, <<"o","u","t">>, <<"o","n">>,
    <<"o","f","f">>, <<"o","v","e","r">>, <<"u","n","d","e","r">>, <<"a","g","a","i","n">>,
    <<"f","u","r","t","h","e","r">>, <<"t","h","e","n">>, <<"o","n","c","e">>,
    <<"h","e","r","e">>, <<"t","h","e","r","e">>, <<"w","h","e","n">>, <<"w","h","e","r","e">>,
    <<"w","h","y">>, <<"h","o","w">>, <<"a","l","l">>, <<"a","n","y">>, <<"b","o","t","h">>,
    <<"e","a","c","h">>, <<"f","e","w">>, <<"m","o","r","e">>, <<"m","o","s","t">>,
    <<"o","t","h","e","r">>, <<"s","o","m","e">>, <<"s","u","c","h">>, <<"n","o">>,
    <<"n","o","r">>, <<"n","o","t">>, <<"o","n","l","y">>, <<"o","w","n">>,
    <<"s","a","m","e">>, <<"s","o">>, <<"t","h","a","n">>, <<"t","o","o">>,
    <<"v","e","r","y">>, <<"c","a","n">>, <<"w","i","l","l">>, <<"j","u","s","t">>,
    <<"d","o","n">>, <<"s","h","o","u","l","d">>, <<"n","o","w">>, <<"i","s">> }

\* ---------------------------------------------------- query processing
\* dict.get(key, default)
Get(d, key, default) == IF key \in DOMAIN d THEN d[key] ELSE default

lemmatize_word(word) == Get(LEMMATIZER, word, word)

\* re.sub(r"[^\w\s]", " ", s): every character outside \w and \s becomes a space
resub(s) ==
    [i \in 1..Len(s) |-> IF IsWordChar(s[i]) \/ IsSpace(s[i]) THEN s[i] ELSE " "]

\* line 58 with the .lower() forgotten
cleaned_NoLower(sentence) == resub(sentence)

\* line 58: cleaned = re.sub(r"[^\w\s]", " ", sentence.lower())
cleaned(sentence) == resub(lower(sentence))

\* line 59 without its stopword test
preprocess_sentence_KeepStopwords(sentence) ==
    SelectSeq(split(cleaned(sentence)), LAMBDA w : w # <<>>)

\* lines 57-59
preprocess_sentence(sentence) ==
    SelectSeq(split(cleaned(sentence)),
              LAMBDA w : w # <<>> /\ w \notin NON_EMPHASIS_WORDS)

\* the inner loop with line 68 forgotten
RECURSIVE ExpandInner_NoLemma(_, _)
ExpandInner_NoLemma(exps, expanded) ==
    IF exps = <<>> THEN expanded
    ELSE ExpandInner_NoLemma(Tail(exps), expanded \cup {exps[1]})

\* lines 66-68: the inner for-loop over dictionary.get(word, '').split()
RECURSIVE ExpandInner(_, _)
ExpandInner(exps, expanded) ==
    IF exps = <<>> THEN expanded
    ELSE ExpandInner(Tail(exps),
                     expanded \cup {exps[1], lemmatize_word(exps[1])})

\* lines 63-68: the for-loop over words, from an accumulated set
RECURSIVE ExpandLoop(_, _, _)
ExpandLoop(words, dict, expanded) ==
    IF words = <<>> THEN expanded
    ELSE ExpandLoop(Tail(words), dict,
                    ExpandInner(split(Get(dict, words[1], <<>>)),
                                expanded \cup {words[1], lemmatize_word(words[1])}))

\* lines 61-68: the set  expanded  as it stands before line 69
expand_words(words, dict) == ExpandLoop(words, dict, {})

\* line 69, list(expanded): a set has no order, any enumeration may come out
RECURSIVE Listings(_)
Listings(S) ==
    IF S = {} THEN {<<>>}
    ELSE UNION {{<<x>> \o rest : rest \in Listings(S \ {x})} : x \in S}

\* ------------------------------------------------------- scoring logic
\* lines 79-81: (doc.get(key) or "").lower()
Field(doc, key) == lower(Get(doc, key, <<>>))

\* line 83
full_text(doc) ==
    Field(doc, "title") \o <<" ">> \o Field(doc, "description") \o <<" ">>
        \o Field(doc, "content")

\* lines 77, 85-86: the points of the exact-phrase test
PhraseBonus(doc, original) ==
    IF join(original) # <<>> /\ IsSubstring(join(original), full_text(doc))
    THEN 90 ELSE 0

\* the chain of lines 91-96 with  if  for each  elif : every field pays
FieldPoints_EveryField(doc, word, inTitle, inDesc, inContent) ==
    (IF IsSubstring(word, Field(doc, "title")) THEN inTitle ELSE 0)
    + (IF IsSubstring(word, Field(doc, "description")) THEN inDesc ELSE 0)
    + (IF IsSubstring(word, Field(doc, "content")) THEN inContent ELSE 0)

\* the if / elif / elif chain of lines 91-96 and 102-107, with its three weights
FieldPoints(doc, word, inTitle, inDesc, inContent) ==
    IF IsSubstring(word, Field(doc, "title")) THEN inTitle
    ELSE IF IsSubstring(word, Field(doc, "description")) THEN inDesc
    ELSE IF IsSubstring(word, Field(doc, "content")) THEN inContent
    ELSE 0

\* lines 89-97 with  matched.add(word)  moved into the scoring branches
OriginalBody_AddWhenScored(st, doc, word) ==
    IF word \in st.matched THEN st
    ELSE [score   |-> st.score + FieldPoints(doc, word, 70, 60, 50),
          matched |-> IF FieldPoints(doc, word, 70, 60, 50) > 0
                      THEN st.matched \cup {word} ELSE st.matched]

\* lines 89-97 without the guard of lines 89-90
OriginalBody_NoGuard(st, doc, word) ==
    [score   |-> st.score + FieldPoints(doc, word, 70, 60, 50),
     matched |-> st.matched \cup {word}]

\* lines 89-97: one iteration of the loop over original
OriginalBody(st, doc, word) ==
    IF word \in st.matched THEN st
    ELSE [score   |-> st.score + FieldPoints(doc, word, 70, 60, 50),
          matched |-> st.matched \cup {word}]

\* lines 100-108 with the guard of line 100 widened to words inside a matched word
ExpandedBody_SkipContained(st, doc, word) ==
    IF \E m \in st.matched : IsSubstring(word, m) THEN st
    ELSE [score   |-> st.score + FieldPoints(doc, word, 10, 7, 5),
          matched |-> st.matched \cup {word}]

\* lines 100-108: one iteration of the loop over expanded
ExpandedBody(st, doc, word) ==
    IF word \in st.matched THEN st
    ELSE [score   |-> st.score + FieldPoints(doc, word, 10, 7, 5),
          matched |-> st.matched \cup {word}]

\* lines 88-97: the loop over original
RECURSIVE OriginalLoop(_, _, _)
OriginalLoop(st, doc, words) ==
    IF words = <<>> THEN st
    ELSE OriginalLoop(OriginalBody(st, doc, words[1]), doc, Tail(words))

\* lines 99-108: the loop over expanded
RECURSIVE ExpandedLoop(_, _, _)
ExpandedLoop(st, doc, words) ==
    IF words = <<>> THEN st
    ELSE ExpandedLoop(ExpandedBody(st, doc, words[1]), doc, Tail(words))

\* lines 74-110
calculate_score(doc, original, expanded) ==
    ExpandedLoop(
        OriginalLoop([score |-> PhraseBonus(doc, original), matched |-> {}],
                     doc, original),
        doc, expanded).score

\* ---------------------------------------------------- search execution
\* line 135 as  score >= 0
Retained_NonNegative(s) == s >= 0

\* line 135: if score > 0
Retained(s) == s > 0

\* an ascending sort reversed: x goes in front of the entries that tie with it
RECURSIVE InsertDesc_TiesReversed(_, _)
InsertDesc_TiesReversed(sorted, x) ==
    IF sorted = <<>> THEN <<x>>
    ELSE IF sorted[1].score > x.score
         THEN <<sorted[1]>> \o InsertDesc_TiesReversed(Tail(sorted), x)
         ELSE <<x>> \o sorted

\* one insertion of a stable descending sort: x goes behind every entry whose
\* score is at least its own
RECURSIVE InsertDesc(_, _)
InsertDesc(sorted, x) ==
    IF sorted = <<>> THEN <<x>>
    ELSE IF sorted[1].score >= x.score
         THEN <<sorted[1]>> \o InsertDesc(Tail(sorted), x)
         ELSE <<x>> \o sorted

\* line 138: sorted(results, key=lambda x: x[1], reverse=True)
RECURSIVE SortedDesc(_, _)
SortedDesc(rs, acc) ==
    IF rs = <<>> THEN acc
    ELSE SortedDesc(Tail(rs), InsertDesc(acc, rs[1]))

\* lines 133-136: the loop over documents, from document i on
RECURSIVE ScoreDocuments(_, _, _, _, _)
ScoreDocuments(docs, i, original, expanded, rs) ==
    IF i > Len(docs) THEN rs
    ELSE LET s == calculate_score(docs[i], original, expanded)
         IN ScoreDocuments(docs, i + 1, original, expanded,
                IF Retained(s) THEN Append(rs, [doc |-> i, score |-> s]) ELSE rs)

\* lines 132-138: what search_documents returns for a loaded collection
RankedResults(docs, original, expanded) ==
    SortedDesc(ScoreDocuments(docs, 1, original, expanded, <<>>), <<>>)

\* ------------------------------------------------------------- inputs
\* every str of at most n characters drawn from chars
Strings(chars, n) == UNION {[1..k -> chars] : k \in 0..n}

\* every list of at most n entries drawn from S
Lists(S, n) == UNION {[1..k -> S] : k \in 0..n}

Readable(content) == [ok |-> TRUE, data |-> content]
Unreadable == [ok |-> FALSE, data |-> <<>>]

EmptyDict == <<>>

\* characters of the queries: a stopword letter, a letter, an upper-case letter,
\* the underscore, a punctuation mark, a blank
QueryChars == {"a", "n", "A", "_", "-", " "}

SmallDict == (<<"n">> :> <<"n","n">>)
ChainDict == (<<"n">> :> <<"n","n"," ","n","a">>) @@ (<<"n","n">> :> <<"b">>)
SmallLemmas == (<<"n","a">> :> <<"n">>)
ChainLemmas == (<<"n","n">> :> <<"n","a","n">>) @@ (<<"n","a">> :> <<"n">>)

\* the documents the normalizer's queries are run against
FixedDocuments ==
    << [title |-> <<"N"," ","n","a">>, description |-> <<"a","_","n">>],
       [content |-> <<"n","n","-","a","n">>] >>

\* the documents the ranker's collections are drawn from: equal and
\* different scores, and one document that matches nothing
DocPool ==
    { [title |-> <<"n">>],
      [title |-> <<"n">>, content |-> <<"b">>],
      [title |-> <<"N","n">>],
      [description |-> <<"n">>],
      [content |-> <<"b">>] }

\* a field of a document: absent ({}), or present with one of three texts
FieldChoices == { {}, {<<>>}, {<<"n"," ","n","a"," ","n">>}, {<<"N","a","n">>} }

FieldOf(key, choice) ==
    IF choice = {} THEN <<>> ELSE (key :> (CHOOSE v \in choice : TRUE))

DocOf(t, d, c) ==
    FieldOf("title", t) @@ FieldOf("description", d) @@ FieldOf("content", c)

ScorerQueries ==
    { <<"n">>, <<"n","n">>, <<"n"," ","n">>,
      <<"n"," ","n","a"," ","n">>, <<"A","n"," ","n","a","n">> }

Input(q, dict, lemmas, db) ==
    [query |-> q, dictFile |-> dict, lemmas |-> lemmas, dbFile |-> db]

\* every short query, against fixed documents
NormalizerInputs ==
    { Input(q, Readable(SmallDict), SmallLemmas, Readable(FixedDocuments)) :
        q \in Strings(QueryChars, MaxQueryLen) }

\* every short collection, readable or not, under two queries
RankerInputs ==
    { Input(q, Readable(SmallDict), EmptyDict, db) :
        q \in { <<"n">>, <<"T","h","e"," ","a">> },
        db \in {Unreadable} \cup {Readable(ds) : ds \in Lists(DocPool, MaxDocs)} }

\* every one-document collection over the field choices, under every
\* dictionary and lemma table
ScorerInputs ==
    { Input(q, dict, lemmas, Readable(<<DocOf(t, d, c)>>)) :
        q \in ScorerQueries,
        dict \in {Unreadable, Readable(SmallDict), Readable(ChainDict)},
        lemmas \in {EmptyDict, ChainLemmas},
        t \in FieldChoices, d \in FieldChoices, c \in FieldChoices }

\* the worked example: "fast running" against "Quick results"
Scenario ==
    Input(<<"f","a","s","t"," ","r","u","n","n","i","n","g">>,
          Readable(<<"f","a","s","t">> :> <<"q","u","i","c","k"," ","r","a","p","i","d">>),
          (<<"r","u","n","n","i","n","g">> :> <<"r","u","n">>),
          Readable(<< [title |-> <<"Q","u","i","c","k"," ","r","e","s","u","l","t","s">>,
                       content |-> <<"w","e"," ","r","u","n"," ","f","a","s","t"," ","t","e","s","t","s">>] >>))

Inputs == NormalizerInputs \cup RankerInputs \cup ScorerInputs \cup {Scenario}

\* ------------------------------------------------------ the state machine
\* main has read its two arguments (lines 148-149) and is about to call
\* search_documents; the lemma table was loaded when the module was imported
Init ==
    /\ \E in \in Inputs :
          /\ query = in.query
          /\ dictFile = in.dictFile
          /\ LEMMATIZER = in.lemmas
          /\ dbFile = in.dbFile
    /\ pc = "load_dictionary"
    /\ dictionary = EmptyDict
    /\ documents = <<>>
    /\ original_words = <<>>
    /\ expanded_words = <<>>
    /\ results = <<>>
    /\ docIdx = 0
    /\ score = 0
    /\ matched = {}
    /\ wordIdx = 0
    /\ ret = <<>>
    /\ stdout = <<>>

inputs == <<query, dbFile, dictFile, LEMMATIZER>>
scorerLocals == <<score, matched, wordIdx>>

\* line 116, load_dictionary (lines 33-39): an unreadable file gives {} and a warning
LoadDictionary ==
    /\ pc = "load_dictionary"
    /\ dictionary' = IF dictFile.ok THEN dictFile.data ELSE EmptyDict
    /\ stdout' = IF dictFile.ok THEN stdout
                 ELSE Append(stdout, "Warning: Could not load dictionary")
    /\ pc' = "read_database"
    /\ UNCHANGED <<inputs, documents, original_words, expanded_words, results,
                   docIdx, scorerLocals, ret>>

\* lines 117-119: the database is read
ReadDatabase ==
    /\ pc = "read_database"
    /\ dbFile.ok
    /\ documents' = dbFile.data
    /\ pc' = "preprocess"
    /\ UNCHANGED <<inputs, dictionary, original_words, expanded_words, results,
                   docIdx, scorerLocals, ret, stdout>>

\* lines 120-122: the exception is caught, a line printed, [] returned
ReadDatabaseError ==
    /\ pc = "read_database"
    /\ ~dbFile.ok
    /\ stdout' = Append(stdout, "Error reading database")
    /\ ret' = <<>>
    /\ pc' = "main"
    /\ UNCHANGED <<inputs, dictionary, documents, original_words, expanded_words,
                   results, docIdx, scorerLocals>>

\* line 124
Preprocess ==
    /\ pc = "preprocess"
    /\ original_words' = preprocess_sentence(query)
    /\ pc' = "expand"
    /\ UNCHANGED <<inputs, dictionary, documents, expanded_words, results,
                   docIdx, scorerLocals, ret, stdout>>

\* lines 125-132: the expansion, the four printed lines, results = []
Expand ==
    /\ pc = "expand"
    /\ expanded_words' \in Listings(expand_words(original_words, dictionary))
    /\ stdout' = Append(stdout, "Query")
    /\ results' = <<>>
    /\ docIdx' = 1
    /\ pc' = IF documents = <<>> THEN "sort" ELSE "score"
    /\ UNCHANGED <<inputs, dictionary, documents, original_words, scorerLocals, ret>>

\* line 134 enters calculate_score: lines 75-86
ScoreBegin ==
    /\ pc = "score"
    /\ score' = PhraseBonus(documents[docIdx], original_words)
    /\ matched' = {}
    /\ wordIdx' = 1
    /\ pc' = "original"
    /\ UNCHANGED <<inputs, dictionary, documents, original_words, expanded_words,
                   results, docIdx, ret, stdout>>

\* lines 88-97: one iteration over original
OriginalStep ==
    /\ pc = "original"
    /\ wordIdx <= Len(original_words)
    /\ LET st == OriginalBody([score |-> score, matched |-> matched],
                              documents[docIdx], original_words[wordIdx])
       IN /\ score' = st.score
          /\ matched' = st.matched
    /\ wordIdx' = wordIdx + 1
    /\ UNCHANGED <<inputs, pc, dictionary, documents, original_words,
                   expanded_words, results, docIdx, ret, stdout>>

\* line 88 exhausted: on to the loop of line 99
OriginalDone ==
    /\ pc = "original"
    /\ wordIdx > Len(original_words)
    /\ wordIdx' = 1
    /\ pc' = "expanded"
    /\ UNCHANGED <<inputs, dictionary, documents, original_words, expanded_words,
                   results, docIdx, score, matched, ret, stdout>>

\* lines 99-108: one iteration over expanded
ExpandedStep ==
    /\ pc = "expanded"
    /\ wordIdx <= Len(expanded_words)
    /\ LET st == ExpandedBody([score |-> score, matched |-> matched],
                              documents[docIdx], expanded_words[wordIdx])
       IN /\ score' = st.score
          /\ matched' = st.matched
    /\ wordIdx' = wordIdx + 1
    /\ UNCHANGED <<inputs, pc, dictionary, documents, original_words,
                   expanded_words, results, docIdx, ret, stdout>>

\* line 110 returns the score; lines 135-136 keep the document or not; line 133
\* moves to the next document
ScoreReturn ==
    /\ pc = "expanded"
    /\ wordIdx > Len(expanded_words)
    /\ results' = IF Retained(score)
                  THEN Append(results, [doc |-> docIdx, score |-> score])
                  ELSE results
    /\ docIdx' = docIdx + 1
    /\ pc' = IF docIdx < Len(documents) THEN "score" ELSE "sort"
    /\ score' = 0
    /\ matched' = {}
    /\ wordIdx' = 0
    /\ UNCHANGED <<inputs, dictionary, documents, original_words, expanded_words,
                   ret, stdout>>

\* line 138
Sort ==
    /\ pc = "sort"
    /\ ret' = SortedDesc(results, <<>>)
    /\ pc' = "main"
    /\ UNCHANGED <<inputs, dictionary, documents, original_words, expanded_words,
                   results, docIdx, scorerLocals, stdout>>

\* lines 152-159: main reports what search_documents returned
Main ==
    /\ pc = "main"
    /\ stdout' = IF ret = <<>> THEN Append(stdout, "No matches found.")
                 ELSE Append(stdout, "Top matches")
    /\ pc' = "done"
    /\ UNCHANGED <<inputs, dictionary, documents, original_words, expanded_words,
                   results, docIdx, scorerLocals, ret>>

Next ==
    \/ LoadDictionary
    \/ ReadDatabase
    \/ ReadDatabaseError
    \/ Preprocess
    \/ Expand
    \/ ScoreBegin
    \/ OriginalStep
    \/ OriginalDone
    \/ ExpandedStep
    \/ ScoreReturn
    \/ Sort
    \/ Main

Spec == Init /\ [][Next]_vars

\* ---------------------------------------------------------- properties
\* search_documents has returned from line 138 (not from line 122)
Ranked == pc \in {"main", "done"} /\ dbFile.ok

\* calculate_score is at line 110: score is the value it returns
AtReturn == pc = "expanded" /\ wordIdx > Len(expanded_words)

\* C1: the returned list is ordered by non-increasing score, and two entries
\* of equal score stand in the order their documents have in the collection.
C1_SortedStable ==
    Ranked =>
        \A i, j \in 1..Len(ret) :
            i < j => /\ ret[i].score >= ret[j].score
                     /\ ret[i].score = ret[j].score => ret[i].doc < ret[j].doc

\* a returned list of three with a tie, whose entries were appended out of order
C1_Witness ==
    /\ Ranked
    /\ Len(ret) = 3
    /\ \E i \in 1..2 : ret[i].score = ret[i + 1].score
    /\ \E i \in 1..2 : results[i].score < results[i + 1].score

\* C2: the returned list holds exactly one entry for each document whose
\* calculate_score is positive and none for a document scoring 0; every
\* entry carries that document's score, at least 1; nothing is cut off.
C2_ExactlyThePositive ==
    Ranked =>
        LET s(i) == calculate_score(documents[i], original_words, expanded_words)
            positive == {i \in 1..Len(documents) : s(i) > 0}
        IN /\ {ret[k].doc : k \in 1..Len(ret)} = positive
           /\ Len(ret) = Cardinality(positive)
           /\ \A k \in 1..Len(ret) : ret[k].score = s(ret[k].doc) /\ ret[k].score >= 1

\* a collection of which some documents are returned and some are dropped
C2_Witness ==
    /\ Ranked
    /\ Len(ret) >= 2
    /\ Len(ret) < Len(documents)

\* C7: when the collection cannot be read, what the caller gets differs from
\* the outcome of a search that ran and matched nothing (the empty list, and
\* main's "No matches found.").
C7_FailureDistinguishable ==
    (pc = "done" /\ ~dbFile.ok) =>
        \/ ret # <<>>
        \/ "No matches found." \notin Range(stdout)

\* line 124 has run in this call
Preprocessed == pc \notin {"load_dictionary", "read_database", "preprocess"} /\ dbFile.ok

\* line 125 has run in this call
Expanded == Preprocessed /\ pc # "expand"

LowerAlnumSet == LowerSet \cup Digits
LowerAlnum(c) == c \in LowerAlnumSet

\* the maximal runs of characters of s that satisfy Keep, as (first, last) pairs
Runs(s, Keep(_)) ==
    LET first == {a \in 1..Len(s) : Keep(s[a]) /\ (a = 1 \/ ~Keep(s[a - 1]))}
        last(a) == CHOOSE b \in a..Len(s) :
                      /\ \A i \in a..b : Keep(s[i])
                      /\ b = Len(s) \/ ~Keep(s[b + 1])
    IN {<<a, last(a)>> : a \in first}

\* the query holds nothing but stopwords, punctuation and whitespace: each of
\* its maximal alphanumeric runs is, lower-cased, a stopword
OnlyStopwords(q) ==
    \A r \in Runs(q, IsAlnum) : lower(SubSeq(q, r[1], r[2])) \in NON_EMPHASIS_WORDS

\* what C3 promises of a query for which  Void  holds
C3_Promise(Void) ==
    /\ Preprocessed =>
          /\ \A k \in 1..Len(original_words) :
                original_words[k] # <<>> /\ original_words[k] \notin NON_EMPHASIS_WORDS
          /\ Void => original_words = <<>>
    /\ (Expanded /\ Void) =>
          /\ expanded_words = <<>>
          /\ \A i \in 1..Len(documents) :
                calculate_score(documents[i], original_words, expanded_words) = 0
    /\ (AtReturn /\ Void) => score = 0
    /\ (Ranked /\ Void) => ret = <<>>

\* C3 as stated: no token is a stopword or empty, and a query made only of
\* stopwords, punctuation and whitespace normalizes to no token, expands to
\* nothing, scores 0 on every document and returns the empty list.
C3_StopwordQueryIsVoid == C3_Promise(OnlyStopwords(query))

\* C3 amended: the same, for a query made only of stopwords, whitespace and
\* punctuation other than the underscore.
C3_StopwordQueryWithoutUnderscoreIsVoid ==
    C3_Promise(OnlyStopwords(query) /\ "_" \notin Range(query))

\* a query of stopwords in both cases and a punctuation mark, run to the end
\* against documents, returning nothing
C3_Witness ==
    /\ Ranked
    /\ OnlyStopwords(query) /\ "_" \notin Range(query)
    /\ Cardinality(Runs(query, IsAlnum)) = 2
    /\ "-" \in Range(query) /\ "A" \in Range(query)
    /\ documents # <<>>
    /\ ret = <<>>

\* C4: the expansion is exactly the set of every token w, lemma(w), every
\* whitespace-separated term e of dictionary[w] and lemma(e); a token absent
\* from the dictionary has no terms, a word absent from the lemma table is
\* its own lemma; the terms are not looked up in turn; nothing is listed twice.
C4_ExpansionExact ==
    Expanded =>
        LET lemma(w) == IF w \in DOMAIN LEMMATIZER THEN LEMMATIZER[w] ELSE w
            terms(w) == IF w \in DOMAIN dictionary
                        THEN Range(split(dictionary[w])) ELSE {}
            tokens == Range(original_words)
        IN /\ Range(expanded_words) =
                tokens \cup {lemma(w) : w \in tokens}
                       \cup UNION {terms(w) : w \in tokens}
                       \cup UNION {{lemma(e) : e \in terms(w)} : w \in tokens}
           /\ Len(expanded_words) = Cardinality(Range(expanded_words))

\* a token with a dictionary term that has a lemma of its own and a
\* dictionary entry of its own, whose terms stay out of the expansion
C4_Witness ==
    /\ Expanded
    /\ \E w \in Range(original_words) \cap DOMAIN dictionary :
         \E e \in Range(split(dictionary[w])) :
            /\ e \in DOMAIN LEMMATIZER /\ LEMMATIZER[e] \in Range(expanded_words)
            /\ e \in DOMAIN dictionary
            /\ \E f \in Range(split(dictionary[e])) : f \notin Range(expanded_words)

\* the k-th maximal run of word characters of the lower-cased query that is
\* no stopword, counted from the left
TokenRuns(q) ==
    LET lq == lower(q)
    IN {r \in Runs(lq, IsWordChar) : SubSeq(lq, r[1], r[2]) \notin NON_EMPHASIS_WORDS}

\* tokens stand in the query's left-to-right order, duplicates kept
InQueryOrder ==
    LET runs == TokenRuns(query)
        lq == lower(query)
    IN /\ Len(original_words) = Cardinality(runs)
       /\ \A r \in runs :
             original_words[1 + Cardinality({x \in runs : x[1] < r[1]})]
                 = SubSeq(lq, r[1], r[2])

\* C6 as stated: every token consists of lower-case alphanumeric characters
\* only (no underscore, no punctuation), and the tokens keep the query's
\* left-to-right order with duplicates preserved.
C6_TokensLowerAlnum ==
    Preprocessed =>
        /\ \A k \in 1..Len(original_words) :
              \A c \in Range(original_words[k]) : LowerAlnum(c)
        /\ InQueryOrder

\* C6 amended: every token consists of lower-case alphanumeric characters
\* and underscores only, and the tokens keep the query's left-to-right order
\* with duplicates preserved.
C6_TokensLowerWordChars ==
    Preprocessed =>
        /\ \A k \in 1..Len(original_words) :
              \A c \in Range(original_words[k]) : LowerAlnum(c) \/ c = "_"
        /\ InQueryOrder

\* an upper-case query with an underscore, whose token keeps the underscore
C6_Witness ==
    /\ Preprocessed
    /\ query # lower(query)
    /\ \E k \in 1..Len(original_words) :
          "_" \in Range(original_words[k]) /\ "a" \in Range(original_words[k])

\* the document calculate_score is working on
doc == documents[docIdx]

\* calculate_score is running on a document whose lower-cased title holds
\* the whole phrase of a non-empty token sequence
PhraseInTitle ==
    /\ pc \in {"original", "expanded"}
    /\ original_words # <<>>
    /\ "title" \in DOMAIN doc
    /\ IsSubstring(join(original_words), lower(doc["title"]))

\* C5: when the title holds the whole phrase, the score returned is at least
\* 90 + 70 * (number of distinct tokens); the phrase bonus and the title
\* bonuses add up, and a repeated token is paid once: the loop over the
\* tokens leaves exactly 90 + 70 * (number of distinct tokens).
C5_PhraseInTitleBound ==
    PhraseInTitle =>
        LET distinct == Cardinality(Range(original_words))
        IN /\ AtReturn => score >= 90 + 70 * distinct
           /\ (pc = "expanded" /\ wordIdx = 1) => score = 90 + 70 * distinct

\* a query that repeats a token and has two distinct ones, scored to the end
\* against a title that holds its phrase
C5_Witness ==
    /\ PhraseInTitle
    /\ AtReturn
    /\ Cardinality(Range(original_words)) = 2
    /\ Len(original_words) = 3
    /\ score > 90 + 70 * 2

\* C8: the returned list is the same whatever order list(expanded) gives the
\* expanded terms: same documents, same scores, same order.
C8_OrderIndependent ==
    (pc = "main" /\ dbFile.ok) =>
        \A listing \in Listings(Range(expanded_words)) :
            RankedResults(documents, original_words, listing) = ret

\* a returned document that two expanded terms, one inside the other, both
\* match, under an expansion of four terms
C8_Witness ==
    /\ Ranked
    /\ ret # <<>>
    /\ Len(expanded_words) >= 4
    /\ \E v, w \in Range(expanded_words) \ Range(original_words) :
          /\ v # w
          /\ IsSubstring(v, w)
          /\ IsSubstring(w, full_text(documents[ret[1].doc]))

\* the sum of f over its (finite) domain
RECURSIVE Sum(_)
Sum(f) ==
    IF DOMAIN f = {} THEN 0
    ELSE LET x == CHOOSE x \in DOMAIN f : TRUE
         IN f[x] + Sum([y \in DOMAIN f \ {x} |-> f[y]])

\* the score as C9 states it
StatedScore(d, original, expandedSet) ==
    LET text(key) == IF key \in DOMAIN d THEN lower(d[key]) ELSE <<>>
        title == text("title")
        description == text("description")
        content == text("content")
        phrase == join(original)
        pay(w, t, de, c) == IF IsSubstring(w, title) THEN t
                            ELSE IF IsSubstring(w, description) THEN de
                            ELSE IF IsSubstring(w, content) THEN c
                            ELSE 0
    IN (IF phrase # <<>>
           /\ IsSubstring(phrase, title \o <<" ">> \o description \o <<" ">> \o content)
        THEN 90 ELSE 0)
       + Sum([w \in Range(original) |-> pay(w, 70, 60, 50)])
       + Sum([w \in expandedSet \ Range(original) |-> pay(w, 10, 7, 5)])

\* C9: the score returned is 90 for the phrase found in the joined text, plus
\* 70 / 60 / 50 for each distinct token by the first of title, description,
\* content that holds it, plus 10 / 7 / 5 likewise for each expanded term
\* that is no token; the worked example scores 65.
C9_ScoreAsStated ==
    AtReturn =>
        /\ score = StatedScore(doc, original_words, Range(expanded_words))
        /\ Input(query, dictFile, LEMMATIZER, dbFile) = Scenario => score = 65

\* the worked example, scored to the end
C9_Witness ==
    /\ AtReturn
    /\ Input(query, dictFile, LEMMATIZER, dbFile) = Scenario
    /\ Range(expanded_words) = {<<"f","a","s","t">>, <<"q","u","i","c","k">>,
                                <<"r","a","p","i","d">>, <<"r","u","n">>,
                                <<"r","u","n","n","i","n","g">>}
    /\ score = 65

\* the word the running loop is at
CurrentWord ==
    IF pc = "original" THEN original_words[wordIdx] ELSE expanded_words[wordIdx]

\* a step of one of the two loops that adds points
Credit == pc \in {"original", "expanded"} /\ pc' = pc /\ score' > score

\* every token the first loop has passed is in matched, paid or not, and so
\* is every term the second loop has passed
Passed ==
    /\ pc = "original" =>
          \A i \in 1..(wordIdx - 1) : original_words[i] \in matched
    /\ pc = "expanded" =>
          /\ Range(original_words) \subseteq matched
          /\ \A i \in 1..(wordIdx - 1) : expanded_words[i] \in matched

\* a paying step pays a word not yet in matched, one weight of its pass, and
\* the second loop pays no token
PaidOnce ==
    Credit =>
        /\ CurrentWord \notin matched
        /\ CurrentWord \in matched'
        /\ pc = "original" => score' - score \in {70, 60, 50}
        /\ pc = "expanded" =>
              /\ score' - score \in {10, 7, 5}
              /\ CurrentWord \notin Range(original_words)

\* matched never shrinks while the loops run
Grows ==
    (pc \in {"original", "expanded"} /\ pc' = pc) => matched \subseteq matched'

\* C10: inside one call a word is paid at most once and for one field: a
\* paying step pays a word not yet in matched, one weight of its pass, and
\* puts it in matched, which never shrinks; every token passed by the first
\* loop is in matched whether it was paid or not, so the second loop pays
\* only expanded terms that are no token.
C10_MatchedGuard == []Passed /\ [][PaidOnce /\ Grows]_vars

\* the second loop has passed a token that no field holds, in a call that
\* paid something
C10_Witness ==
    /\ pc = "expanded"
    /\ score > 0
    /\ \E i \in 1..(wordIdx - 1) :
          /\ expanded_words[i] \in Range(original_words)
          /\ ~IsSubstring(expanded_words[i], full_text(doc))

=============================================================================
